---- MODULE Spec2Model ----
(***************************************************************************)
(* Dice-Game: a model of the two programs of the repository.               *)
(*   game.js   - DiceGame: commit/reveal sessions (class FairRandom) for   *)
(*               the turn order and for both throws.                       *)
(*   part_000  - Game: one commit/reveal exchange (FairRandomGenerator)    *)
(*               for the turn order, then plain Dice.roll() throws.        *)
(* A run of the model is one run of one of the two programs.               *)
(***************************************************************************)
EXTENDS Integers, Sequences, FiniteSets

VARIABLES
    program,        \* which program runs: "game.js" or "part_000"
    pc,             \* position of the program
    caller,         \* the handler that owns the current session / prompt
    dice,           \* this.dice: the pool (game.js splices it)
    userDice,       \* this.userDice (<<>> while undefined)
    computerDice,   \* this.computerDice (<<>> while undefined)
    keysGenerated,  \* number of crypto.randomBytes(32) calls made so far
    fairness,       \* the FairRandom object of the running handler
    sessions,       \* every FairRandom object constructed so far, in order
    rand,           \* generateUniformRandom's local rand (0 once out of scope)
    transcript,     \* what was written to / read from the terminal, in order
    userRoll,       \* face thrown for the user
    computerRoll,   \* face thrown for the computer
    firstTurn,      \* who moves first ("user" / "computer" / "none")
    args,           \* process.argv.slice(2): the dice as typed
    table           \* the probability table shown at the current prompt

vars == <<program, pc, caller, dice, userDice, computerDice, keysGenerated,
          fairness, sessions, rand, transcript, userRoll, computerRoll, firstTurn,
          args, table>>

----------------------------------------------------------------------------
(* Bounds of the model *)

\* width in bits of one draw of the entropy source (the code draws 32 bits)
DrawBits == 4

\* the largest range the classes are constructed with on their own
MaxRange == 7

Draws == 0 .. (2 ^ DrawBits - 1)

----------------------------------------------------------------------------
(* JavaScript numbers: integers plus NaN *)

NaN == -(2 ^ 30)

isNaN(x) == x = NaN

Abs(x) == IF x < 0 THEN -x ELSE x

\* a % b: NaN for a zero divisor, otherwise the sign follows the dividend
JsRem(a, b) ==
    IF isNaN(a) \/ isNaN(b) \/ b = 0 THEN NaN
    ELSE IF a < 0 THEN -((-a) % Abs(b)) ELSE a % Abs(b)

JsSub(a, b) == IF isNaN(a) \/ isNaN(b) THEN NaN ELSE a - b

\* a >= b: false as soon as one side is NaN
JsGe(a, b) == ~isNaN(a) /\ ~isNaN(b) /\ a >= b

----------------------------------------------------------------------------
(* Strings are sequences of one-character strings *)

Digits == <<"0", "1", "2", "3", "4", "5", "6", "7", "8", "9">>

HexDigits == <<"0", "1", "2", "3", "4", "5", "6", "7", "8", "9",
               "a", "b", "c", "d", "e", "f">>

IsDigit(c) == \E i \in 1 .. 10 : Digits[i] = c

DigitVal(c) == (CHOOSE i \in 1 .. 10 : Digits[i] = c) - 1

RECURSIVE NatToString(_)
NatToString(n) ==
    IF n < 10 THEN <<Digits[n + 1]>>
    ELSE NatToString(n \div 10) \o <<Digits[(n % 10) + 1]>>

\* Number.prototype.toString()
toString(n) ==
    IF isNaN(n) THEN <<"N", "a", "N">>
    ELSE IF n < 0 THEN <<"-">> \o NatToString(-n)
    ELSE NatToString(n)

RECURSIVE TrimStart(_)
TrimStart(s) == IF s # <<>> /\ Head(s) = " " THEN TrimStart(Tail(s)) ELSE s

RECURSIVE TrimEnd(_)
TrimEnd(s) ==
    IF s # <<>> /\ s[Len(s)] = " " THEN TrimEnd(SubSeq(s, 1, Len(s) - 1)) ELSE s

\* String.prototype.trim()
Trim(s) == TrimEnd(TrimStart(s))

\* String.prototype.toLowerCase() on the letters the entries use
ToLowerCase(s) == [i \in 1 .. Len(s) |-> IF s[i] = "X" THEN "x" ELSE s[i]]

RECURSIVE DigitPrefix(_, _, _)
DigitPrefix(s, acc, seen) ==
    IF s # <<>> /\ IsDigit(Head(s))
    THEN DigitPrefix(Tail(s), acc * 10 + DigitVal(Head(s)), TRUE)
    ELSE IF seen THEN acc ELSE NaN

\* parseInt(s, 10): leading blanks, an optional sign, the longest digit prefix
parseInt(s) ==
    LET t == TrimStart(s)
        neg == t # <<>> /\ Head(t) = "-"
        u == IF t # <<>> /\ Head(t) \in {"-", "+"} THEN Tail(t) ELSE t
        v == DigitPrefix(u, 0, FALSE)
    IN  IF isNaN(v) THEN NaN ELSE IF neg THEN -v ELSE v

RECURSIVE ToHex(_)
ToHex(n) ==
    IF n < 16 THEN <<HexDigits[n + 1]>>
    ELSE ToHex(n \div 16) \o <<HexDigits[(n % 16) + 1]>>

HexVal(c) == (CHOOSE i \in 1 .. 16 : HexDigits[i] = c) - 1

RECURSIVE FromHex(_)
FromHex(s) ==
    IF s = <<>> THEN 0
    ELSE FromHex(SubSeq(s, 1, Len(s) - 1)) * 16 + HexVal(s[Len(s)])

\* String.prototype.split(',')
RECURSIVE SplitFrom(_, _)
SplitFrom(s, token) ==
    IF s = <<>> THEN <<token>>
    ELSE IF Head(s) = "," THEN <<token>> \o SplitFrom(Tail(s), <<>>)
    ELSE SplitFrom(Tail(s), Append(token, Head(s)))

split(s) == SplitFrom(s, <<>>)

\* Array.prototype.join(',') of the faces' toString()
RECURSIVE join(_)
join(values) ==
    IF values = <<>> THEN <<>>
    ELSE IF Len(values) = 1 THEN toString(values[1])
    ELSE toString(values[1]) \o <<",">> \o join(Tail(values))

\* a number that is not an integer (1.5)
NonInteger == NaN + 1

IndexOfDot(s) ==
    IF \E i \in DOMAIN s : s[i] = "."
    THEN CHOOSE i \in DOMAIN s : s[i] = "." /\ \A j \in 1 .. (i - 1) : s[j] # "."
    ELSE 0

\* Number(s), the conversion isNaN(s) and map(Number) apply to a string:
\* blank is 0, a decimal literal is its value, everything else is NaN
Number(s) ==
    LET t == Trim(s)
        neg == t # <<>> /\ Head(t) = "-"
        u == IF t # <<>> /\ Head(t) \in {"-", "+"} THEN Tail(t) ELSE t
        k == IndexOfDot(u)
        ip == IF k = 0 THEN u ELSE SubSeq(u, 1, k - 1)
        fp == IF k = 0 THEN <<>> ELSE SubSeq(u, k + 1, Len(u))
        v == DigitPrefix(ip, 0, TRUE)
    IN  IF t = <<>> THEN 0
        ELSE IF \/ \E i \in DOMAIN ip : ~IsDigit(ip[i])
                \/ \E i \in DOMAIN fp : ~IsDigit(fp[i])
                \/ ip = <<>> /\ fp = <<>>
        THEN NaN
        ELSE IF \E i \in DOMAIN fp : fp[i] # "0" THEN NonInteger
        ELSE IF neg THEN -v ELSE v

\* Number.isInteger
isInteger(x) == x \notin {NaN, NonInteger}

----------------------------------------------------------------------------
(* Dice and command lines *)

\* a slip: two dice are enough
EnoughDiceTwo(a) == Len(a) >= 2

\* args.length < 3 is refused by both programs
EnoughDice(a) == Len(a) >= 3

\* a slip: the number of values is not checked
SixValuesAny(values) == TRUE

\* values.length !== 6 is refused by both programs
SixValues(values) == Len(values) = 6

\* DiceParser.parseDice of game.js: ok is FALSE where it calls process.exit(1)
parseDice(a) ==
    LET tokens(i) == split(a[i])
        ok == /\ EnoughDice(a)
              /\ \A i \in DOMAIN a :
                    /\ \A k \in DOMAIN tokens(i) : ~isNaN(Number(tokens(i)[k]))
                    /\ SixValues(tokens(i))
    IN  [ok |-> ok,
         dice |-> IF ok
                  THEN [i \in DOMAIN a |->
                          [k \in DOMAIN tokens(i) |-> parseInt(tokens(i)[k])]]
                  ELSE <<>>]

\* new DiceConfiguration(args) of part_000: ok is FALSE where it exits or throws
DiceConfiguration(a) ==
    LET values(i) == [k \in DOMAIN split(a[i]) |-> Number(split(a[i])[k])]
        ok == /\ EnoughDice(a)
              /\ \A i \in DOMAIN a :
                    /\ SixValues(values(i))
                    /\ \A k \in DOMAIN values(i) : isInteger(values(i)[k])
    IN  [ok |-> ok,
         dice |-> IF ok THEN [i \in DOMAIN a |-> values(i)] ELSE <<>>]

\* what the running program makes of its command line
Parsed(prog, a) == IF prog = "game.js" THEN parseDice(a) ELSE DiceConfiguration(a)

\* the dice of the command line a game is run with: it passes both parsers
\* (at least three dice, six integers each); the first two dice share a face
DiceConfigs ==
    { << <<2, 2, 4, 4, 9, 9>>, <<9, 8, 1, 1, 8, 9>>, <<7, 5, 3, 7, 5, 3>> >> }

\* a command line with a fourth die, negative and repeated values
LargerDiceConfigs ==
    { << <<1, 1, 6, 6, 8, 8>>, <<2, 2, 4, 4, 9, 9>>, <<3, 3, 5, 5, 7, 7>>,
         <<-1, 0, 3, 3, 7, 7>> >> }

\* the command line that spells a configuration
CommandLine(config) == [i \in DOMAIN config |-> join(config[i])]

NoDie == <<>>

\* Dice.roll(index) of game.js
roll(die, index) == die[index + 1]

\* a slip: slice in place of splice, the pool keeps the die
slice(pool, index) == pool

\* Array.prototype.splice(index, 1) on the pool: what is left
splice(pool, index) ==
    [k \in 1 .. (Len(pool) - 1) |-> IF k <= index THEN pool[k] ELSE pool[k + 1]]

\* what the user may type at a prompt
Entries ==
    { <<Digits[i]>> : i \in 1 .. 8 } \cup
    { <<"x">>, <<"X">>, <<"?">>, <<"a">>, <<>>, <<"1", ".", "5">>,
      <<"-", "1">>, <<" ", "2", " ">>, <<"1", "0">> }

----------------------------------------------------------------------------
(* Commitment *)

\* a slip: one key for the whole process
randomBytes32Once(n) == 1

\* crypto.randomBytes(32): the n-th call returns a buffer no earlier call
\* returned (n counts the calls made before)
randomBytes32(n) == n + 1

\* a slip: the key shown is not the key of the session
revealKeyOther(key) == ToHex(key + 1)

\* Buffer.prototype.toString('hex')
revealKey(key) == ToHex(key)

\* HMAC-SHA3-256 as an injective function of (key, message)
Hmac(key, message) == <<key, message>>

\* FairRandom.calculateHMAC of game.js: the message is value.toString()
calculateHMAC(key, value) == Hmac(key, toString(value))

\* FairRandomGenerator.generateHMAC of part_000: the message is
\* Buffer.from([value]), one byte holding value & 255
generateHMAC(key, value) == Hmac(key, <<value % 256>>)

----------------------------------------------------------------------------
(* UniformSampler *)

\* a slip: no rejection, every draw is reduced modulo max
LimitNone(max) == 2 ^ DrawBits

\* const limit = 2 ** 32 - (2 ** 32 % max), at the model's draw width
Limit(max) == JsSub(2 ^ DrawBits, JsRem(2 ^ DrawBits, max))

\* the loop's exit: !(rand >= limit)
Accepted(r, max) == ~JsGe(r, Limit(max))

\* return rand % max
Residue(r, max) == JsRem(r, max)

\* a slip: the two contributions are multiplied
CombineProduct(userInput, computerValue, length) ==
    JsRem(userInput * computerValue, length)

\* (userInput + computerValue) % length
Combine(userInput, computerValue, length) == JsRem(userInput + computerValue, length)

NoSession == [rangeMax |-> 0, key |-> 0, value |-> 0, hmac |-> <<>>]

----------------------------------------------------------------------------
(* ProbabilityCalculator *)

\* a slip: a tie counts as a win
beatsOrTies(v1, v2) == v1 >= v2

\* if (v1 > v2) wins++; a comparison with NaN is false
beats(v1, v2) == ~isNaN(v1) /\ ~isNaN(v2) /\ v1 > v2

\* the inner loop over the second die's values
RECURSIVE winsInner(_, _)
winsInner(v1, d2) ==
    IF d2 = <<>> THEN 0
    ELSE (IF beats(v1, Head(d2)) THEN 1 ELSE 0) + winsInner(v1, Tail(d2))

\* the outer loop over the first die's values
RECURSIVE winsOuter(_, _)
winsOuter(d1, d2) ==
    IF d1 = <<>> THEN 0 ELSE winsInner(Head(d1), d2) + winsOuter(Tail(d1), d2)

\* (num / den).toFixed(digits), as the number of 10^-digits units it shows
toFixed(num, den, digits) == (2 * num * 10 ^ digits + den) \div (2 * den)

\* ProbabilityCalculator.calculateProbabilities of game.js; a cell shows
\* (wins / total).toFixed(4), the diagonal keeps the 0 it was filled with
calculateProbabilities(diceList) ==
    [i \in DOMAIN diceList |->
       [j \in DOMAIN diceList |->
          IF i = j THEN [wins |-> 0, total |-> 0, shown |-> 0]
          ELSE LET wins == winsOuter(diceList[i], diceList[j])
                   total == Len(diceList[i]) * Len(diceList[j])
               IN  [wins |-> wins, total |-> total,
                    shown |-> toFixed(wins, total, 4)]]]

\* ProbabilityCalculator.calculateProbability of part_000: fraction
\* wins/total and (probability * 100).toFixed(2)
calculateProbability(dice1, dice2) ==
    LET wins == winsOuter(dice1, dice2)
        total == Len(dice1) * Len(dice2)
    IN  [wins |-> wins, total |-> total, shown |-> toFixed(wins * 100, total, 2)]

\* ProbabilityTable.displayTable of part_000; the diagonal shows
\* (1 / 3 * 100).toFixed(2)
ProbabilityTable(diceSet) ==
    [i \in DOMAIN diceSet |->
       [j \in DOMAIN diceSet |->
          IF i = j THEN [wins |-> 0, total |-> 0, shown |-> toFixed(100, 3, 2)]
          ELSE calculateProbability(diceSet[i], diceSet[j])]]

\* a slip: rendering consumes the list it is given
diceListShifted(diceList) == Tail(diceList)

\* the list handed to displayTable, after it returns: forEach and map leave
\* it as it was
diceListAfter(diceList) == diceList

----------------------------------------------------------------------------
(* game.js *)

InitWith(configs) ==
    /\ program \in {"game.js", "part_000"}
    /\ pc = "start"
    /\ caller = "main"
    /\ args \in {CommandLine(c) : c \in configs}
    /\ Parsed(program, args).ok
    /\ dice = Parsed(program, args).dice
    /\ userDice = NoDie
    /\ computerDice = NoDie
    /\ keysGenerated = 0
    /\ fairness = NoSession
    /\ sessions = <<>>
    /\ rand = 0
    /\ transcript = <<>>
    /\ userRoll = 0
    /\ computerRoll = 0
    /\ firstTurn = "none"
    /\ table = <<>>

Init == InitWith(DiceConfigs)

\* a slip: the key and the value are printed along with the HMAC
PublishedWithSecret(f, n) ==
    <<[ev |-> "hmac", session |-> n, hmac |-> f.hmac],
      [ev |-> "reveal", session |-> n, value |-> f.value, key |-> ToHex(f.key)]>>

\* the line a handler prints once its session is constructed: the HMAC only
Published(f, n) == <<[ev |-> "hmac", session |-> n, hmac |-> f.hmac]>>

\* a slip: the value handed out is not the one committed to
getValueShifted(f) == (f.value + 1) % f.rangeMax

\* FairRandom.getValue
getValue(f) == f.value

\* new FairRandom(rangeMax), up to the sampling loop: rangeMax and key are set
NewFairRandom(rangeMax, owner) ==
    /\ fairness' = [rangeMax |-> rangeMax, key |-> randomBytes32(keysGenerated),
                    value |-> 0, hmac |-> <<>>]
    /\ keysGenerated' = keysGenerated + 1
    /\ caller' = owner
    /\ pc' = "sample"

\* DiceGame.start, up to the construction of the turn-order session
start ==
    /\ program = "game.js"
    /\ pc = "start"
    /\ NewFairRandom(2, "start")
    /\ UNCHANGED <<program, args, table, dice, userDice, computerDice, sessions, rand,
                   transcript, userRoll, computerRoll, firstTurn>>

\* one iteration of generateUniformRandom's loop; an accepted draw ends the
\* constructor (value, hmac) and the handler prints the HMAC and prompts
generateUniformRandom ==
    /\ program = "game.js"
    /\ pc = "sample"
    /\ \E r \in Draws :
        /\ rand' = r
        /\ IF Accepted(r, fairness.rangeMax)
           THEN LET v == Residue(r, fairness.rangeMax)
                    f == [fairness EXCEPT !.value = v,
                                          !.hmac = calculateHMAC(fairness.key, v)]
                IN  /\ fairness' = f
                    /\ sessions' = Append(sessions, f)
                    /\ transcript' = transcript \o Published(f, Len(sessions) + 1)
                    /\ pc' = "prompt"
           ELSE UNCHANGED <<fairness, sessions, transcript, pc>>
    /\ UNCHANGED <<program, args, table, caller, dice, userDice, computerDice, keysGenerated,
                   userRoll, computerRoll, firstTurn>>

\* the validInputs of the prompt a handler issues
ValidInputs ==
    IF caller = "start" THEN {0, 1}
    ELSE IF caller = "userSelectDice" THEN 0 .. (Len(dice) - 1)
    ELSE 0 .. (fairness.rangeMax - 1)

AtPrompt == program = "game.js" /\ pc = "prompt"

\* console.log of the secret value and the key of the handler's session
Reveal == [ev |-> "reveal", session |-> Len(sessions),
           value |-> getValue(fairness), key |-> revealKey(fairness.key)]

\* a slip: the secret is shown on the way out
ExitedWithSecret == <<Reveal>>

\* what 'x' prints of the sessions: 'Game exited.' only
Exited == <<>>

\* getUserInput: 'x' ends the process
getUserInput_exit ==
    /\ AtPrompt
    /\ {input \in Entries : ToLowerCase(Trim(input)) = <<"x">>} # {}
    /\ pc' = "exited"
    /\ rand' = 0
    /\ table' = <<>>
    /\ transcript' = transcript \o Exited
    /\ UNCHANGED <<program, args, caller, dice, userDice, computerDice,
                   keysGenerated, fairness, sessions, userRoll, computerRoll,
                   firstTurn>>

\* getUserInput: '?' shows the table and asks again
getUserInput_help ==
    /\ AtPrompt
    /\ {input \in Entries : ToLowerCase(Trim(input)) = <<"?">>} # {}
    /\ table' = calculateProbabilities(dice)
    /\ dice' = diceListAfter(dice)
    /\ UNCHANGED <<program, args, pc, caller, userDice, computerDice,
                   keysGenerated, fairness, sessions, rand, transcript, userRoll,
                   computerRoll, firstTurn>>

\* what getUserInput does with an entry that is neither 'x' nor '?'
IsValue(input) == ToLowerCase(Trim(input)) \notin {<<"x">>, <<"?">>}

Accepts(input) ==
    /\ IsValue(input)
    /\ ~isNaN(parseInt(Trim(input)))
    /\ parseInt(Trim(input)) \in ValidInputs

\* getUserInput: 'Invalid input. Try again.'
getUserInput_invalid ==
    /\ AtPrompt
    /\ {input \in Entries : IsValue(input) /\ ~Accepts(input)} # {}
    /\ UNCHANGED vars

Input(n) == [ev |-> "input", session |-> Len(sessions), n |-> n]

\* computerSelectDice with crypto.randomInt returning randomIndex
computerSelectDice(pool, randomIndex) ==
    [die |-> pool[randomIndex + 1], rest |-> splice(pool, randomIndex)]

\* a slip: the user moves first on a wrong guess
userFirstOnMiss(userGuess, computerValue) == userGuess # computerValue

\* const userFirst = userGuess === computerValue
userFirst(userGuess, computerValue) == userGuess = computerValue

\* a selection as the terminal shows it: who chose, the index chosen in the
\* pool offered, and the die
Selected(who, index, pool) ==
    [ev |-> "select", session |-> 0, who |-> who, index |-> index,
     of |-> Len(pool), die |-> pool[index + 1]]

\* DiceGame.start after the guess: reveal, turn order, and the computer's
\* selection when it moves first; then userSelectDice prompts
start_guess ==
    /\ AtPrompt /\ caller = "start"
    /\ \E input \in Entries :
        /\ Accepts(input)
        /\ LET userGuess == parseInt(Trim(input))
               first == userFirst(userGuess, getValue(fairness))
           IN  /\ firstTurn' = IF first THEN "user" ELSE "computer"
               /\ IF first
                  THEN /\ transcript' = transcript \o <<Input(userGuess), Reveal>>
                       /\ UNCHANGED <<dice, computerDice>>
                  ELSE \E randomIndex \in 0 .. (Len(dice) - 1) :
                         LET c == computerSelectDice(dice, randomIndex)
                         IN  /\ computerDice' = c.die
                             /\ dice' = c.rest
                             /\ transcript' = transcript \o
                                   <<Input(userGuess), Reveal,
                                     Selected("computer", randomIndex, dice)>>
    /\ caller' = "userSelectDice"
    /\ rand' = 0
    /\ table' = <<>>
    /\ UNCHANGED <<program, args, pc, userDice, keysGenerated, fairness, sessions,
                   userRoll, computerRoll>>

\* userSelectDice after the selection, the computer's selection when the user
\* moved first, and computerThrow up to the construction of its session
userSelectDice ==
    /\ AtPrompt /\ caller = "userSelectDice"
    /\ \E input \in Entries :
        /\ Accepts(input)
        /\ LET selection == parseInt(Trim(input))
               left == splice(dice, selection)
           IN  /\ userDice' = dice[selection + 1]
               /\ IF firstTurn = "user"
                  THEN \E randomIndex \in 0 .. (Len(left) - 1) :
                         LET c == computerSelectDice(left, randomIndex)
                         IN  /\ computerDice' = c.die /\ dice' = c.rest
                             /\ transcript' = transcript \o
                                   <<Selected("user", selection, dice),
                                     Selected("computer", randomIndex, left)>>
                             /\ NewFairRandom(Len(c.die), "computerThrow")
                  ELSE /\ dice' = left
                       /\ computerDice' = computerDice
                       /\ transcript' = transcript \o
                             <<Selected("user", selection, dice)>>
                       /\ NewFairRandom(Len(computerDice), "computerThrow")
    /\ table' = <<>>
    /\ UNCHANGED <<program, args, sessions, rand, userRoll, computerRoll,
                   firstTurn>>

\* the rest of a throw once the user's number is in: reveal, result, face
Throw(length, userInput) ==
    LET result == Combine(userInput, getValue(fairness), length)
    IN  <<Input(userInput), Reveal,
          [ev |-> "result", session |-> Len(sessions), userInput |-> userInput,
           computerValue |-> getValue(fairness), result |-> result,
           mod |-> length]>>

\* computerThrow after the user's number, and userThrow up to the
\* construction of its session
computerThrow ==
    /\ AtPrompt /\ caller = "computerThrow"
    /\ \E input \in Entries :
        /\ Accepts(input)
        /\ LET userInput == parseInt(Trim(input))
           IN  /\ transcript' = transcript \o Throw(Len(computerDice), userInput)
               /\ computerRoll' = roll(computerDice,
                     Combine(userInput, getValue(fairness), Len(computerDice)))
    /\ NewFairRandom(Len(userDice), "userThrow")
    /\ rand' = 0
    /\ table' = <<>>
    /\ UNCHANGED <<program, args, dice, userDice, computerDice, sessions,
                   userRoll, firstTurn>>

\* a slip: the two messages exchanged
declareWinnerSwapped(u, c) ==
    IF u > c THEN "I win!" ELSE IF u < c THEN "You win!" ELSE "It's a tie!"

\* declareWinner
declareWinner(u, c) ==
    IF u > c THEN "You win!" ELSE IF u < c THEN "I win!" ELSE "It's a tie!"

\* userThrow after the user's number, and declareWinner
userThrow ==
    /\ AtPrompt /\ caller = "userThrow"
    /\ \E input \in Entries :
        /\ Accepts(input)
        /\ LET userInput == parseInt(Trim(input))
               face == roll(userDice,
                            Combine(userInput, getValue(fairness), Len(userDice)))
           IN  /\ userRoll' = face
               /\ transcript' = transcript \o Throw(Len(userDice), userInput) \o
                     <<[ev |-> "throw", who |-> "user", face |-> face],
                       [ev |-> "throw", who |-> "computer", face |-> computerRoll],
                       [ev |-> "outcome", says |-> declareWinner(face, computerRoll)]>>
    /\ pc' = "done"
    /\ rand' = 0
    /\ table' = <<>>
    /\ UNCHANGED <<program, args, caller, dice, userDice, computerDice, keysGenerated,
                   fairness, sessions, computerRoll, firstTurn>>

----------------------------------------------------------------------------
(* part_000 *)

\* Dice.roll() of part_000: this.values[Math.floor(Math.random() * 6)], with
\* index the floor
Dice_roll(die, index) == die[index + 1]

\* FairRandomGenerator.generateSecureValue(rangeMax) with crypto.randomInt
\* returning value
generateSecureValue(key, rangeMax, value) ==
    [rangeMax |-> rangeMax, key |-> key, value |-> value,
     hmac |-> generateHMAC(key, value)]

\* new Game(diceConfig) and Game.start up to the question: the generator's
\* key, generateSecureValue(2), the HMAC line
Game_start ==
    /\ program = "part_000"
    /\ pc = "start"
    /\ \E value \in 0 .. 1 :
         LET key == randomBytes32(keysGenerated)
             f == generateSecureValue(key, 2, value)
         IN  /\ fairness' = f
             /\ sessions' = Append(sessions, f)
             /\ transcript' = transcript \o Published(f, Len(sessions) + 1)
    /\ keysGenerated' = keysGenerated + 1
    /\ caller' = "determineTurnOrder"
    /\ pc' = "question"
    /\ UNCHANGED <<program, args, table, dice, userDice, computerDice, rand, userRoll,
                   computerRoll, firstTurn>>

\* the callback of rl.question in determineTurnOrder
determineTurnOrder ==
    /\ program = "part_000"
    /\ pc = "question"
    /\ \E userGuess \in Entries :
        /\ firstTurn' = IF parseInt(userGuess) = fairness.value
                        THEN "user" ELSE "computer"
        /\ transcript' = transcript \o
              <<Input(parseInt(userGuess)),
                [ev |-> "revealKey", session |-> Len(sessions),
                 key |-> revealKey(fairness.key)]>>
    /\ pc' = "resolved"
    /\ UNCHANGED <<program, args, table, caller, dice, userDice, computerDice, keysGenerated,
                   fairness, sessions, rand, userRoll, computerRoll>>

\* the outcome lines of playRound
playRoundOutcome(u, c) ==
    IF u > c THEN "You win!" ELSE IF u < c THEN "Computer wins!"
    ELSE "It's a draw!"

\* Game.start after the await (the table is shown) and playRound
playRound ==
    /\ program = "part_000"
    /\ pc = "resolved"
    /\ userDice' = dice[1]
    /\ computerDice' = dice[2]
    /\ \E i \in 0 .. 5, j \in 0 .. 5 :
         LET u == Dice_roll(dice[1], i)
             c == Dice_roll(dice[2], j)
         IN  /\ userRoll' = u
             /\ computerRoll' = c
             /\ transcript' = transcript \o
                   <<[ev |-> "throw", who |-> "user", face |-> u],
                     [ev |-> "throw", who |-> "computer", face |-> c],
                     [ev |-> "outcome", says |-> playRoundOutcome(u, c)]>>
    /\ table' = ProbabilityTable(dice)
    /\ caller' = "playRound"
    /\ pc' = "done"
    /\ UNCHANGED <<program, args, dice, keysGenerated, fairness, sessions, rand,
                   firstTurn>>

Next ==
    \/ start
    \/ generateUniformRandom
    \/ getUserInput_exit
    \/ getUserInput_help
    \/ getUserInput_invalid
    \/ start_guess
    \/ userSelectDice
    \/ computerThrow
    \/ userThrow
    \/ Game_start
    \/ determineTurnOrder
    \/ playRound

Spec == Init /\ [][Next]_vars

\* the same programs, run with three dice or with four
PoolInit == InitWith(DiceConfigs \cup LargerDiceConfigs)

PoolSpec == PoolInit /\ [][Next]_vars

\* a step that leaves the place the program is at: the loop of
\* generateUniformRandom draws a number below its limit, the user gives a
\* prompt an entry its handler takes or leaves by 'x', a callback or
\* continuation that is due runs
Advance ==
    /\ Next
    /\ pc' # pc \/ caller' # caller

LiveSpec == Spec /\ WF_vars(Advance)


----------------------------------------------------------------------------
(* class FairRandom of game.js on its own: new FairRandom(rangeMax) for any *)
(* rangeMax, one counterpart input in [0, rangeMax), reveal and combine     *)

UnitInit ==
    /\ program = "game.js"
    /\ pc = "new"
    /\ caller = "unit"
    /\ dice = <<>>
    /\ userDice = NoDie
    /\ computerDice = NoDie
    /\ keysGenerated = 0
    /\ fairness \in {[NoSession EXCEPT !.rangeMax = n] : n \in (-MaxRange) .. MaxRange}
    /\ sessions = <<>>
    /\ rand = 0
    /\ transcript = <<>>
    /\ userRoll = 0
    /\ computerRoll = 0
    /\ firstTurn = "none"
    /\ args = <<>>
    /\ table = <<>>

\* new FairRandom(rangeMax)
FairRandom_new ==
    /\ program = "game.js"
    /\ pc = "new"
    /\ NewFairRandom(fairness.rangeMax, "unit")
    /\ UNCHANGED <<program, args, table, dice, userDice, computerDice, sessions, rand,
                   transcript, userRoll, computerRoll, firstTurn>>

\* the counterpart's number, then getValue, revealKey and the combination
FairRandom_combine ==
    /\ AtPrompt /\ caller = "unit"
    /\ \E userInput \in ValidInputs :
         transcript' = transcript \o Throw(fairness.rangeMax, userInput)
    /\ pc' = "done"
    /\ UNCHANGED <<program, args, table, caller, dice, userDice, computerDice, keysGenerated,
                   fairness, sessions, rand, userRoll, computerRoll, firstTurn>>

UnitNext ==
    \/ FairRandom_new
    \/ generateUniformRandom
    \/ FairRandom_combine

UnitSpec == UnitInit /\ [][UnitNext]_vars

----------------------------------------------------------------------------
(* class FairRandomGenerator of part_000 on its own: one generator, two     *)
(* calls of generateSecureValue(rangeMax)                                   *)

GeneratorInit ==
    /\ program = "part_000"
    /\ pc = "new"
    /\ caller = "unit"
    /\ dice = <<>>
    /\ userDice = NoDie
    /\ computerDice = NoDie
    /\ keysGenerated = 0
    /\ fairness \in {[NoSession EXCEPT !.rangeMax = n] :
                       n \in ((-MaxRange) .. MaxRange) \cup {2 ^ 8 + MaxRange}}
    /\ sessions = <<>>
    /\ rand = 0
    /\ transcript = <<>>
    /\ userRoll = 0
    /\ computerRoll = 0
    /\ firstTurn = "none"
    /\ args = <<>>
    /\ table = <<>>

\* new FairRandomGenerator()
FairRandomGenerator_new ==
    /\ program = "part_000"
    /\ pc = "new"
    /\ fairness' = [fairness EXCEPT !.key = randomBytes32(keysGenerated)]
    /\ keysGenerated' = keysGenerated + 1
    /\ pc' = "ready"
    /\ UNCHANGED <<program, args, table, caller, dice, userDice, computerDice, sessions, rand,
                   transcript, userRoll, computerRoll, firstTurn>>

\* generateSecureValue(rangeMax); crypto.randomInt(0, rangeMax) throws a
\* RangeError unless rangeMax > 0
FairRandomGenerator_generateSecureValue ==
    /\ program = "part_000"
    /\ pc = "ready"
    /\ Len(sessions) < 2
    /\ IF fairness.rangeMax > 0
       THEN \E value \in 0 .. (fairness.rangeMax - 1) :
              LET f == generateSecureValue(fairness.key, fairness.rangeMax, value)
              IN  /\ fairness' = f
                  /\ sessions' = Append(sessions, f)
                  /\ transcript' = transcript \o Published(f, Len(sessions) + 1)
                  /\ pc' = pc
       ELSE /\ pc' = "RangeError"
            /\ UNCHANGED <<fairness, sessions, transcript>>
    /\ UNCHANGED <<program, args, table, caller, dice, userDice, computerDice, keysGenerated,
                   rand, userRoll, computerRoll, firstTurn>>

GeneratorNext ==
    \/ FairRandomGenerator_new
    \/ FairRandomGenerator_generateSecureValue

GeneratorSpec == GeneratorInit /\ [][GeneratorNext]_vars

----------------------------------------------------------------------------
(* the probability tables on their own: displayTable of either program for  *)
(* lists of three to MaxDice dice                                           *)

MaxDice == 4

\* the dice the lists are made of: pairs without and with equal faces
DicePool ==
    { <<2, 2, 4, 4, 9, 9>>, <<1, 1, 6, 6, 8, 8>>, <<6, 8, 1, 1, 8, 6>>,
      <<7, 5, 3, 7, 5, 3>>, <<-1, 0, 3, 3, 7, 7>> }

TableInit ==
    /\ program \in {"game.js", "part_000"}
    /\ pc = "table"
    /\ caller = "unit"
    /\ dice \in UNION {[1 .. n -> DicePool] : n \in 3 .. MaxDice}
    /\ userDice = NoDie
    /\ computerDice = NoDie
    /\ keysGenerated = 0
    /\ fairness = NoSession
    /\ sessions = <<>>
    /\ rand = 0
    /\ transcript = <<>>
    /\ userRoll = 0
    /\ computerRoll = 0
    /\ firstTurn = "none"
    /\ args = <<>>
    /\ table = <<>>

\* ProbabilityCalculator.displayTable(diceList) of game.js
displayTable ==
    /\ program = "game.js"
    /\ pc = "table"
    /\ table' = calculateProbabilities(dice)
    /\ dice' = diceListAfter(dice)
    /\ pc' = "shown"
    /\ UNCHANGED <<program, args, caller, userDice, computerDice, keysGenerated,
                   fairness, sessions, rand, transcript, userRoll, computerRoll,
                   firstTurn>>

\* new ProbabilityTable(diceSet).displayTable() of part_000
ProbabilityTable_displayTable ==
    /\ program = "part_000"
    /\ pc = "table"
    /\ table' = ProbabilityTable(dice)
    /\ pc' = "shown"
    /\ UNCHANGED <<program, args, caller, dice, userDice, computerDice,
                   keysGenerated, fairness, sessions, rand, transcript, userRoll,
                   computerRoll, firstTurn>>

TableNext ==
    \/ displayTable
    \/ ProbabilityTable_displayTable

TableSpec == TableInit /\ [][TableNext]_vars

----------------------------------------------------------------------------
(* the programs from their command line: main, the parser, and the game up  *)
(* to its first prompt, for command lines of up to MaxArgs arguments        *)

MaxArgs == 3

\* the tokens of a die as the user writes them
Written(die) == [k \in DOMAIN die |-> toString(die[k])]

\* an argument: its tokens with commas between them
RECURSIVE Argument(_)
Argument(tokens) ==
    IF tokens = <<>> THEN <<>>
    ELSE IF Len(tokens) = 1 THEN tokens[1]
    ELSE tokens[1] \o <<",">> \o Argument(Tail(tokens))

\* tokens that are not integers: empty, fractional, a letter
OddTokens == { <<>>, <<"1", ".", "5">>, <<"a">> }

\* the arguments tried: three well-formed dice, one die with each odd token
\* in third place (2,2,,4,9,9), one of five values and one of seven
Arguments ==
    LET example == Written(<<2, 2, 4, 4, 9, 9>>)
    IN  {Argument(Written(d)) :
            d \in {<<2, 2, 4, 4, 9, 9>>, <<6, 8, 1, 1, 8, 6>>, <<-1, 0, 3, 3, 7, 7>>}}
        \cup {Argument([example EXCEPT ![3] = t]) : t \in OddTokens}
        \cup {Argument(SubSeq(example, 1, 5)), Argument(Append(example, <<"9">>))}

ParseInit ==
    /\ program \in {"game.js", "part_000"}
    /\ pc = "main"
    /\ caller = "main"
    /\ args \in UNION {[1 .. n -> Arguments] : n \in 0 .. MaxArgs}
    /\ dice = <<>>
    /\ userDice = NoDie
    /\ computerDice = NoDie
    /\ keysGenerated = 0
    /\ fairness = NoSession
    /\ sessions = <<>>
    /\ rand = 0
    /\ transcript = <<>>
    /\ userRoll = 0
    /\ computerRoll = 0
    /\ firstTurn = "none"
    /\ table = <<>>

\* main up to game.start(): the parser either hands over the dice or the
\* process ends (process.exit(1), or the error caught and printed)
main ==
    /\ pc = "main"
    /\ IF Parsed(program, args).ok
       THEN /\ dice' = Parsed(program, args).dice
            /\ pc' = "start"
       ELSE /\ dice' = dice
            /\ pc' = "rejected"
    /\ UNCHANGED <<program, args, caller, userDice, computerDice, keysGenerated,
                   fairness, sessions, rand, transcript, userRoll, computerRoll,
                   firstTurn, table>>

ParseNext ==
    \/ main
    \/ start
    \/ generateUniformRandom
    \/ Game_start

ParseSpec == ParseInit /\ [][ParseNext]_vars

----------------------------------------------------------------------------
(* Properties *)

Events(kind) == {i \in DOMAIN transcript : transcript[i].ev = kind}

\* the sessions whose HMAC is out and whose counterpart has not answered yet
Waiting(n) ==
    /\ n = Len(sessions)
    /\ \/ pc = "prompt" /\ caller \in {"start", "computerThrow", "userThrow", "unit"}
       \/ pc = "question"

InputBefore(i, n) ==
    \E j \in 1 .. (i - 1) : transcript[j].ev = "input" /\ transcript[j].session = n

\* the commit function of the running program
Commit(key, value) ==
    IF program = "game.js" THEN calculateHMAC(key, value)
    ELSE generateHMAC(key, value)

\* C1: a session's value and key are written out only after the counterpart's
\* input of that session was read; while a session waits for its input,
\* nothing of it is out but the HMAC.
C1_RevealAfterInput ==
    /\ \A i \in Events("reveal") \cup Events("revealKey") :
          InputBefore(i, transcript[i].session)
    /\ \A n \in DOMAIN sessions :
          Waiting(n) =>
             \A i \in DOMAIN transcript :
                transcript[i].session = n => transcript[i].ev = "hmac"

C1_Witness ==
    /\ program = "game.js"
    /\ pc = "done"
    /\ {transcript[i].session : i \in Events("reveal")} = {1, 2, 3}

\* C2: the HMAC of a session is computed over the key and value the session
\* was constructed with and is printed before the counterpart's input of that
\* session is asked for; the value handed out afterwards is that same value.
C2_CommitBeforeInput ==
    /\ \A n \in DOMAIN sessions :
          (Waiting(n) \/ \E i \in Events("input") : transcript[i].session = n) =>
             \E j \in Events("hmac") :
                /\ transcript[j].session = n
                /\ transcript[j].hmac = Commit(sessions[n].key, sessions[n].value)
                /\ \A i \in Events("input") :
                      transcript[i].session = n => j < i
    /\ \A i \in Events("reveal") \cup Events("result") :
          LET e == transcript[i]
          IN  IF e.ev = "reveal" THEN e.value = sessions[e.session].value
              ELSE e.computerValue = sessions[e.session].value
    /\ pc \notin {"start", "new", "sample", "ready", "RangeError"} =>
          fairness = sessions[Len(sessions)]

C2_Witness ==
    /\ program = "game.js"
    /\ pc = "prompt" /\ caller = "userThrow"
    /\ Len(sessions) = 3
    /\ \E i \in Events("reveal") : transcript[i].session = 2

\* the input read for session n
InputOf(n) ==
    transcript[CHOOSE i \in Events("input") : transcript[i].session = n].n

\* C3: each throw's result is (input + value) mod N, N the number of faces of
\* the die thrown, it lies in 0 .. N-1, and the face thrown is the face at
\* that index of that party's die.
C3_CombinedResult ==
    \A i \in Events("result") :
       LET e == transcript[i]
           mine == program = "game.js" /\ caller # "unit"
           die == IF e.session = 2 THEN computerDice ELSE userDice
           face == IF e.session = 2 THEN computerRoll ELSE userRoll
           N == IF mine THEN Len(die) ELSE sessions[e.session].rangeMax
       IN  /\ e.mod = N
           /\ e.userInput = InputOf(e.session)
           /\ e.computerValue = sessions[e.session].value
           /\ e.result = (e.userInput + e.computerValue) % N
           /\ e.result \in 0 .. (N - 1)
           /\ mine => e.session \in {2, 3} /\ face = die[e.result + 1]

\* N = 6, value 3, input 4: index 1
C3_Witness ==
    /\ program = "game.js"
    /\ pc = "done"
    /\ \E i \in Events("result") :
          /\ transcript[i].session = 3
          /\ transcript[i].mod = 6
          /\ transcript[i].computerValue = 3
          /\ transcript[i].userInput = 4
          /\ transcript[i].result = 1
          /\ userRoll = userDice[2]

\* C4: when a game is decided, each party's face is the face that the result
\* of a commit/reveal session of range F (the die's face count) selects.
C4_EveryRollFromSession ==
    pc = "done" /\ caller # "unit" =>
       \A who \in {"user", "computer"} :
          LET die == IF who = "user" THEN userDice ELSE computerDice
              face == IF who = "user" THEN userRoll ELSE computerRoll
          IN  \E i \in Events("result") :
                 /\ sessions[transcript[i].session].rangeMax = Len(die)
                 /\ transcript[i].mod = Len(die)
                 /\ face = die[transcript[i].result + 1]

\* C5: no two sessions of a run hold the same key, and the HMACs printed
\* under one key are all the HMAC of one session, hence of one value.
C5_FreshKeyPerSession ==
    /\ \A m, n \in DOMAIN sessions : m # n => sessions[m].key # sessions[n].key
    /\ \A i, j \in Events("hmac") :
          transcript[i].hmac[1] = transcript[j].hmac[1] =>
             /\ transcript[i].session = transcript[j].session
             /\ sessions[transcript[i].session].value
                  = sessions[transcript[j].session].value

C5_Witness ==
    /\ program = "game.js"
    /\ Len(sessions) = 3
    /\ Cardinality(Events("hmac")) = 3

\* the HMAC line of session n
HmacOf(n) ==
    transcript[CHOOSE i \in Events("hmac") : transcript[i].session = n].hmac

\* C6: the key and value written out at reveal are the key and value of the
\* session as constructed, and committing to them again gives the HMAC that
\* was printed for the session (part_000 prints the key only: the value is
\* the one of its two candidates whose commitment is the printed HMAC).
C6_RoundTrip ==
    /\ \A i \in Events("reveal") :
          LET e == transcript[i]
          IN  /\ FromHex(e.key) = sessions[e.session].key
              /\ e.value = sessions[e.session].value
              /\ Commit(FromHex(e.key), e.value) = HmacOf(e.session)
              /\ HmacOf(e.session) = sessions[e.session].hmac
    /\ \A i \in Events("revealKey") :
          LET e == transcript[i]
          IN  /\ FromHex(e.key) = sessions[e.session].key
              /\ HmacOf(e.session) = sessions[e.session].hmac
              /\ {v \in 0 .. 1 : Commit(FromHex(e.key), v) = HmacOf(e.session)}
                   = {sessions[e.session].value}

C6_Witness ==
    /\ program = "game.js"
    /\ pc = "done"
    /\ \E i \in Events("reveal") :
          /\ transcript[i].session = 3
          /\ transcript[i].key = <<"3">>
          /\ transcript[i].value = 5

\* C7: under one key, two different values never get the same HMAC (the
\* hash being injective, their messages differ).
C7_CommitBindsValue ==
    \A m, n \in DOMAIN sessions :
       sessions[m].key = sessions[n].key /\ sessions[m].value # sessions[n].value
          => sessions[m].hmac # sessions[n].hmac

\* C8: for a range N >= 1 and any input c in 0 .. N-1, value -> (c + value)
\* mod N maps 0 .. N-1 one-to-one onto 0 .. N-1: every result has exactly one
\* value that yields it.
C8_CombineBijection ==
    LET N == fairness.rangeMax
    IN  N >= 1 =>
           \A c \in 0 .. (N - 1) :
              /\ {Combine(c, v, N) : v \in 0 .. (N - 1)} = 0 .. (N - 1)
              /\ \A r \in 0 .. (N - 1) :
                    Cardinality({v \in 0 .. (N - 1) : Combine(c, v, N) = r}) = 1

\* a combination that wraps around: 4 + 3 = 2 (mod 5)
C8_Witness ==
    /\ caller = "unit"
    /\ pc = "done"
    /\ fairness.rangeMax = 5
    /\ \E i \in Events("result") :
          /\ transcript[i].userInput = 4
          /\ transcript[i].computerValue = 3
          /\ transcript[i].result = 2

\* C9: for N >= 1 the limit is 2^W - (2^W mod N); a draw is returned, as draw
\* mod N in 0 .. N-1, exactly when it is below the limit and is drawn again
\* otherwise; each residue 0 .. N-1 comes from exactly limit / N draw values.
C9_RejectionSampling ==
    LET N == fairness.rangeMax
        W == 2 ^ DrawBits
    IN  N >= 1 =>
           /\ Limit(N) = W - (W % N)
           /\ \A d \in Draws :
                 /\ Accepted(d, N) <=> d < W - (W % N)
                 /\ Accepted(d, N) =>
                       Residue(d, N) = d % N /\ Residue(d, N) \in 0 .. (N - 1)
           /\ \A r \in 0 .. (N - 1) :
                 Cardinality({d \in Draws : Accepted(d, N) /\ Residue(d, N) = r})
                    = (W - (W % N)) \div N
           /\ pc = "sample" => rand = 0 \/ rand >= W - (W % N)
           /\ pc = "prompt" =>
                 /\ rand < W - (W % N)
                 /\ fairness.value = rand % N
                 /\ fairness.value \in 0 .. (N - 1)

\* the draw 11 is below the limit of N = 6 and gives 5
C9_Witness ==
    /\ caller = "unit"
    /\ pc = "prompt"
    /\ fairness.rangeMax = 6
    /\ rand = 11
    /\ fairness.value = 5

\* C10: a range below 1 is refused: no session of such a range is committed
\* (no value sampled, no HMAC printed).
C10_InvalidRangeRejected ==
    fairness.rangeMax < 1 =>
       /\ sessions = <<>>
       /\ Events("hmac") = {}
       /\ pc \notin {"prompt", "done"}

\* C11: every number a prompt hands on is a member of the valid set of that
\* prompt: the counterpart's input of a session of range N lies in 0 .. N-1,
\* and a selection is an index of the pool offered.
C11_InputInValidSet ==
    /\ \A i \in Events("input") :
          transcript[i].n \in 0 .. (sessions[transcript[i].session].rangeMax - 1)
    /\ \A i \in Events("select") :
          transcript[i].index \in 0 .. (transcript[i].of - 1)

\* C12: once the N=2 session is answered, the user moves first exactly when
\* the guess read equals the committed value, and the computer in every other
\* case; in game.js the party that moves first is the one that selects first.
C12_TurnOrder ==
    /\ firstTurn # "none" =>
          /\ firstTurn \in {"user", "computer"}
          /\ (firstTurn = "user") <=> (InputOf(1) = sessions[1].value)
    /\ \A i \in Events("select") :
          (\A j \in Events("select") : i <= j) => transcript[i].who = firstTurn

\* value 1 and guess 0: the computer moves first and has selected
C12_Witness ==
    /\ program = "game.js"
    /\ Len(sessions) >= 1
    /\ sessions[1].value = 1
    /\ Events("input") # {}
    /\ InputOf(1) = 0
    /\ firstTurn = "computer"
    /\ \E i \in Events("select") : transcript[i].who = "computer"

\* the face pairs (a of die d1, b of die d2), by position
FacePairs(d1, d2) == (DOMAIN d1) \X (DOMAIN d2)

\* the pairs in which the face of d1 is the greater, and those of equal faces
Greater(d1, d2) == {p \in FacePairs(d1, d2) : d1[p[1]] > d2[p[2]]}

Ties(d1, d2) == {p \in FacePairs(d1, d2) : d1[p[1]] = d2[p[2]]}

\* C13: in a table shown, the cell of every ordered pair (i, j), i # j, counts
\* the face pairs (a, b) of dice[i] x dice[j] with a > b, out of F x F = 36,
\* and shows that ratio rounded; [2,2,4,4,9,9] against [1,1,6,6,8,8] is 20 of
\* 36, shown as 0.5556 (55.56 percent).
C13_ProbabilityMatrix ==
    pc = "shown" =>
       \A i, j \in DOMAIN dice :
          i # j =>
             LET cell == table[i][j]
             IN  /\ cell.wins = Cardinality(Greater(dice[i], dice[j]))
                 /\ cell.total = 6 * 6
                 /\ Abs(2 * cell.total * cell.shown - 2 * 10 ^ 4 * cell.wins)
                      <= cell.total
                 /\ dice[i] = <<2, 2, 4, 4, 9, 9>> /\ dice[j] = <<1, 1, 6, 6, 8, 8>> =>
                       cell.wins = 20 /\ cell.shown = 5556

C13_Witness ==
    /\ pc = "shown"
    /\ dice[1] = <<2, 2, 4, 4, 9, 9>>
    /\ dice[2] = <<1, 1, 6, 6, 8, 8>>
    /\ table[1][2] = [wins |-> 20, total |-> 36, shown |-> 5556]
    /\ table[2][1].wins = 16

\* C14: in a table shown, for every two dice i # j the win counts of the two
\* cells and the number of tied face pairs add up to F^2 = 36; ties are in
\* neither count, so the two win counts add up to at most 36.
C14_SymmetryComplement ==
    pc = "shown" =>
       \A i, j \in DOMAIN dice :
          i # j =>
             /\ table[i][j].wins + table[j][i].wins
                  + Cardinality(Ties(dice[i], dice[j])) = 6 * 6
             /\ table[i][j].wins + table[j][i].wins <= 6 * 6

\* [6,8,1,1,8,6] against [1,1,6,6,8,8]: 12 tied pairs, 12 wins each way
C14_Witness ==
    /\ pc = "shown"
    /\ \E i, j \in DOMAIN dice :
          /\ dice[i] = <<6, 8, 1, 1, 8, 6>>
          /\ dice[j] = <<1, 1, 6, 6, 8, 8>>
          /\ Cardinality(Ties(dice[i], dice[j])) = 12
          /\ table[i][j].wins = 12
          /\ table[j][i].wins = 12

\* the number of values an argument holds: one more than its commas
Values(arg) == Cardinality({k \in DOMAIN arg : arg[k] = ","}) + 1

\* C15: a command line of fewer than 3 dice, or with a die that does not hold
\* exactly 6 values, is rejected before any game starts: no dice are handed
\* over, no session is created and nothing is prompted.
C15_InvalidConfigurationRejected ==
    (Len(args) < 3 \/ \E i \in DOMAIN args : Values(args[i]) # 6) =>
       /\ pc \in {"main", "rejected"}
       /\ dice = <<>>
       /\ sessions = <<>>
       /\ transcript = <<>>

\* three dice, the first written 2,2,4,4,9 (five values), the others well
\* formed: rejected
C15_Witness ==
    /\ pc = "rejected"
    /\ Len(args) = 3
    /\ Values(args[1]) = 5
    /\ Values(args[2]) = 6 /\ Values(args[3]) = 6
    /\ \A i \in DOMAIN args :
          \A k \in DOMAIN args[i] : IsDigit(args[i][k]) \/ args[i][k] = ","

\* C16: whenever the parser has accepted a command line, every token of it
\* is an integer and every face is the integer its token writes.
C16_OnlyIntegerTokens ==
    pc \notin {"main", "rejected"} =>
       \A i \in DOMAIN args :
          /\ Len(dice[i]) = Values(args[i])
          /\ \A k \in DOMAIN dice[i] :
                /\ isInteger(dice[i][k])
                /\ toString(dice[i][k]) = split(args[i])[k]

\* the dice the parser makes of each command line a game is run with
DiceOf ==
    [prog \in {"game.js", "part_000"} |->
       [a \in {CommandLine(c) : c \in DiceConfigs \cup LargerDiceConfigs} |->
          Parsed(prog, a).dice]]

\* the dice the parser handed to the game
Original == DiceOf[program][args]

\* a list without the elements at the positions in gone
Without(list, gone) ==
    LET keep == DOMAIN list \ gone
    IN  [k \in 1 .. Cardinality(keep) |->
           list[CHOOSE p \in keep : Cardinality({q \in keep : q < p}) = k - 1]]

\* C17: every selection is made from a pool that is not empty and is one die
\* shorter than the pool of the selection before it, starting from the dice
\* of the command line; the pool left is the original dice without those
\* selected, and the two parties hold dice at two different positions of the
\* original list.
C17_SelectionRemovesOne ==
    /\ \A i \in Events("select") :
          /\ transcript[i].of >= 1
          /\ transcript[i].index \in 0 .. (transcript[i].of - 1)
          /\ transcript[i].of
               = Len(Original) - Cardinality({j \in Events("select") : j < i})
          /\ \A j \in Events("select") :
                j < i => transcript[j].who # transcript[i].who
    /\ pc = "prompt" /\ caller = "userSelectDice" => Len(dice) >= 1
    /\ program = "game.js" /\ userDice = NoDie /\ computerDice = NoDie =>
          dice = Original
    /\ program = "game.js" /\ userDice = NoDie /\ computerDice # NoDie =>
          \E j \in DOMAIN Original :
             computerDice = Original[j] /\ dice = Without(Original, {j})
    /\ userDice # NoDie =>
          \E i, j \in DOMAIN Original :
             /\ i # j
             /\ userDice = Original[i]
             /\ computerDice = Original[j]
             /\ program = "game.js" => dice = Without(Original, {i, j})

\* four dice, the user first: the user takes the second die (index 1 of 4),
\* the computer the fourth (index 2 of the 3 left); the first and third stay
C17_Witness ==
    /\ program = "game.js"
    /\ Len(Original) = 4
    /\ firstTurn = "user"
    /\ userDice = Original[2]
    /\ computerDice = Original[4]
    /\ dice = <<Original[1], Original[3]>>
    /\ \E i, j \in Events("select") :
          /\ i < j
          /\ transcript[i].who = "user" /\ transcript[i].index = 1
          /\ transcript[i].of = 4
          /\ transcript[j].who = "computer" /\ transcript[j].index = 2
          /\ transcript[j].of = 3

\* the prompts of game.js at which a session waits for the user's number
SessionPrompts == {"start", "computerThrow", "userThrow"}

\* after 'x' at such a prompt, all that is out of the waiting session is its
\* HMAC: no input was taken for it, no value, key or result was written
ExitKeepsSecret ==
    pc = "exited" /\ caller \in SessionPrompts =>
       /\ \E i \in Events("hmac") : transcript[i].session = Len(sessions)
       /\ \A i \in DOMAIN transcript :
             transcript[i].ev \in {"input", "reveal", "revealKey", "result"} =>
                transcript[i].session # Len(sessions)

\* C18: when the user enters 'x' at a prompt at which a session waits, the
\* session is never completed and its key and value are never written out:
\* nothing of it is out but the HMAC, and the process takes no further step.
C18_AbandonedNeverRevealed ==
    /\ []ExitKeepsSecret
    /\ [][pc # "exited"]_vars

\* 'x' at the prompt of the user's throw, the third session
C18_Witness ==
    /\ pc = "exited"
    /\ caller = "userThrow"
    /\ Len(sessions) = 3
    /\ \E i \in Events("reveal") : transcript[i].session = 2
    /\ \A i \in Events("reveal") : transcript[i].session # 3

\* a step in which '?' is answered: the table is shown and the same prompt
\* of the same handler is issued again
HelpStep ==
    /\ AtPrompt
    /\ pc' = "prompt" /\ caller' = caller
    /\ table' # <<>>

\* a step in which the prompt's handler takes an entry and goes on
InputStep == AtPrompt /\ (pc' # "prompt" \/ caller' # caller)

\* C19: a step in which '?' is answered leaves the session in flight (key,
\* value, HMAC, range), all sessions, the pool, both selected dice and
\* everything written so far as they were, and the same prompt is issued
\* again; the table shown is the one of the current pool, and nothing of it
\* is left once the prompt's real input is taken.
C19_HelpChangesNothing ==
    [][/\ HelpStep =>
            /\ UNCHANGED <<fairness, sessions, dice, userDice, computerDice,
                           transcript, keysGenerated, rand, userRoll,
                           computerRoll, firstTurn, program, args>>
            /\ table' = calculateProbabilities(dice)
       /\ InputStep => table' = <<>>]_vars

\* '?' answered at the prompt of the computer's throw
C19_Witness ==
    /\ AtPrompt
    /\ caller = "computerThrow"
    /\ Len(sessions) = 2
    /\ table # <<>>
    /\ table = calculateProbabilities(dice)
    /\ userDice # NoDie /\ computerDice # NoDie

\* what an event is, without its contents: its kind and its session or party
Kind(e) ==
    IF e.ev \in {"hmac", "input", "reveal", "revealKey", "result"}
    THEN <<e.ev, toString(e.session)>>
    ELSE IF e.ev \in {"select", "throw"} THEN <<e.ev, <<e.who>>>>
    ELSE <<e.ev, <<>>>>

Session(n) == <<"hmac", toString(n)>>

Answered(n) == << <<"input", toString(n)>>, <<"reveal", toString(n)>> >>

\* the course of a game of game.js: the turn-order session, the two
\* selections (first the party that moves first), the session of the
\* computer's throw, the session of the user's throw, the throws, the outcome
Course(first) ==
    <<Session(1)>> \o Answered(1)
    \o (IF first = "user"
        THEN << <<"select", <<"user">>>>, <<"select", <<"computer">>>> >>
        ELSE << <<"select", <<"computer">>>>, <<"select", <<"user">>>> >>)
    \o <<Session(2)>> \o Answered(2) \o << <<"result", toString(2)>> >>
    \o <<Session(3)>> \o Answered(3) \o << <<"result", toString(3)>> >>
    \o << <<"throw", <<"user">>>>, <<"throw", <<"computer">>>>, <<"outcome", <<>>>> >>

\* the course of part_000: the turn-order session, then the round
ShortCourse ==
    << Session(1), <<"input", toString(1)>>, <<"revealKey", toString(1)>>,
       <<"throw", <<"user">>>>, <<"throw", <<"computer">>>>, <<"outcome", <<>>>> >>

IsPrefix(s, t) == Len(s) <= Len(t) /\ \A i \in DOMAIN s : s[i] = t[i]

\* who an outcome line declares
Declares(says) ==
    IF says = "You win!" THEN "user"
    ELSE IF says \in {"I win!", "Computer wins!"} THEN "computer"
    ELSE "tie"

\* what is written so far follows the course, and a finished game has
\* declared one outcome, the comparison of the two faces thrown
InOrder ==
    /\ caller # "unit" =>
          LET kinds == [i \in DOMAIN transcript |-> Kind(transcript[i])]
          IN  IF program = "game.js"
              THEN \E first \in {"user", "computer"} :
                      /\ firstTurn \in {"none", first}
                      /\ IsPrefix(kinds, Course(first))
              ELSE IsPrefix(kinds, ShortCourse)
    /\ Cardinality(Events("outcome")) = IF pc = "done" /\ caller # "unit" THEN 1 ELSE 0
    /\ \A i \in Events("outcome") :
          /\ Declares(transcript[i].says)
               = IF userRoll > computerRoll THEN "user"
                 ELSE IF userRoll < computerRoll THEN "computer" ELSE "tie"
          /\ transcript[i - 2] = [ev |-> "throw", who |-> "user", face |-> userRoll]
          /\ transcript[i - 1]
               = [ev |-> "throw", who |-> "computer", face |-> computerRoll]

\* C20: the sessions of a game run one at a time in the order turn order,
\* selections, computer's throw, user's throw; when the user keeps answering
\* with valid entries and the sampler's draw is eventually accepted, the game
\* ends, either left by 'x' or with exactly one outcome declared, the one the
\* comparison of the two faces gives.
C20_GameProgress ==
    /\ []InOrder
    /\ <>(pc \in {"done", "exited"})

\* both throw 9: a tie is declared
C20_Witness ==
    /\ program = "game.js"
    /\ pc = "done"
    /\ Len(sessions) = 3
    /\ userRoll = 9 /\ computerRoll = 9
    /\ \E i \in Events("outcome") : transcript[i].says = "It's a tie!"

============================================================================
